---- MODULE Spec2Model ----
(***************************************************************************)
(* Model of the serverless weather handlers of gophercon-2018: the        *)
(* once-only configuration bootstrap (sync.Once around configFunc), the   *)
(* initialization routine of every handler variant, the request handlers  *)
(* that run behind it, the database/sql pool they share and the weather   *)
(* table the collector upserts into.                                       *)
(***************************************************************************)
EXTENDS Integers, Sequences, FiniteSets, TLC

\* ---------------------------------------------------------------- bounds
NumRequests == 2     \* requests the process serves, each on its own goroutine
MaxMissing == 1      \* required environment variables left unset at deploy time

Workers == 1..NumRequests

\* ------------------------------------------------------ handler variants
Collector  == "weather-data-collector"
Api        == "weather-api"
ApiErr     == "weather-api-config-err"
Assistant  == "weather-assistant"
AssistantErr == "weather-assistant-config-err"
Frontend   == "weather-frontend"

Variants == {Collector, Api, ApiErr, Assistant, AssistantErr, Frontend}

\* Variants whose F panics inside once.Do when configFunc returns an error;
\* the others record the error in config.err and test config.Error().
PanicVariants == {Api, Assistant}

\* ------------------------------------------------------------ plain data
NoValue == <<>>                 \* the empty string
SomeValue == <<"v">>            \* a non-empty deploy-time value
Whitespace == {" ", "\n", "\t"}

RECURSIVE TrimLeft(_)
TrimLeft(s) ==
    IF s = <<>> THEN s
    ELSE IF Head(s) \in Whitespace THEN TrimLeft(Tail(s)) ELSE s

RECURSIVE TrimRight(_)
TrimRight(s) ==
    IF s = <<>> THEN s
    ELSE IF s[Len(s)] \in Whitespace THEN TrimRight(SubSeq(s, 1, Len(s) - 1))
         ELSE s

\* bytes.TrimSpace
TrimSpace(s) == TrimRight(TrimLeft(s))

\* Contents of the bucket object "password": bin/creds writes 32 characters
\* of [a-zA-Z0-9] followed by the newline of echo.
PasswordObjects == { <<"s", "3", "\n">>, <<"p", "w", "\n">> }

\* Contents of the bucket object "maps-api-key".
ApiKeyObjects == { <<"k", "\n">> }

TempDigits == <<"1", "2", "3", "4", "5", "6", "7", "8", "9">>

\* ioutil.TempFile("", ""): a fresh name under the temp directory.
TempName(n) == <<"/", "t", "m", "p", "/", TempDigits[n]>>

\* fmt.Sprintf("password='%s'", password)
Dsn(password) == <<"password='">> \o password \o <<"'">>

\* ---------------------------------------------------------------- errors
NoErr == [kind |-> "nil", name |-> ""]

\* &envError{name} and fmt.Errorf("<name> environment variable unset or missing")
EnvError(name) == [kind |-> "env", name |-> name]

\* error returned by a failed library call
CallError(op, name) == [kind |-> op, name |-> name]

\* (*envError).Error
ErrorString(e) ==
    IF e.kind = "env" THEN <<e.name, " environment variable unset or missing">>
    ELSE <<e.kind, e.name>>

\* ------------------------------------------- the initialization routines
St(op, name, arg) == [op |-> op, name |-> name, arg |-> arg]

\* EnableStackdriverTrace
EnableStackdriverTrace ==
    << St("Getenv", "GCP_PROJECT", ""),
       St("NewExporter", "", ""),
       St("RegisterExporter", "", "") >>

\* NewStackdriverLogger, and the assignment of its result to logger
NewStackdriverLogger ==
    << St("Getenv", "GCP_PROJECT", ""),
       St("Getenv", "FUNCTION_NAME", ""),
       St("Getenv", "FUNCTION_REGION", ""),
       St("NewLogger", "", "") >>

\* Credentials handed to lib/pq with the password in PGPASSWORD as well.
FetchCredentials_pgpassword ==
    << St("objectToString", "password", ""),
       St("Setenv", "PGPASSWORD", "password"),
       St("objectToTempFile", "client.pem", ""),
       St("objectToTempFile", "client.key", ""),
       St("objectToTempFile", "server.pem", ""),
       St("Setenv", "PGSSLCERT", "client.pem"),
       St("Setenv", "PGSSLKEY", "client.key"),
       St("Setenv", "PGSSLROOTCERT", "server.pem") >>

\* The Cloud SQL credentials: four objects, three PGSSL* variables.
FetchCredentials ==
    << St("objectToString", "password", ""),
       St("objectToTempFile", "client.pem", ""),
       St("objectToTempFile", "client.key", ""),
       St("objectToTempFile", "server.pem", ""),
       St("Setenv", "PGSSLCERT", "client.pem"),
       St("Setenv", "PGSSLKEY", "client.key"),
       St("Setenv", "PGSSLROOTCERT", "server.pem") >>

\* A database opened without the limit on open connections.
OpenDatabase_noMaxOpen ==
    << St("sqlOpen", "", "local"),
       St("SetMaxIdleConns", "", ""),
       St("PublishDB", "", "") >>

\* sql.Open into a local, the two pool limits, then config.db = db
OpenDatabase ==
    << St("sqlOpen", "", "local"),
       St("SetMaxIdleConns", "", ""),
       St("SetMaxOpenConns", "", ""),
       St("PublishDB", "", "") >>

\* A collector routine that builds the geocoding client last.
CollectorConfig_mapsLast ==
    << St("Getenv", "GCP_PROJECT", ""),
       St("NewExporter", "", ""),
       St("RegisterExporter", "", ""),
       St("Getenv", "CONFIGURATION_BUCKET_NAME", ""),
       St("NewStorageClient", "", "") >>
    \o FetchCredentials \o OpenDatabase \o
    << St("objectToString", "maps-api-key", ""),
       St("NewMapsClient", "", "") >>

\* weather-data-collector defaultConfigFunc
CollectorConfig ==
    << St("Getenv", "GCP_PROJECT", ""),
       St("NewExporter", "", ""),
       St("RegisterExporter", "", ""),
       St("Getenv", "CONFIGURATION_BUCKET_NAME", ""),
       St("NewStorageClient", "", ""),
       St("objectToString", "maps-api-key", ""),
       St("NewMapsClient", "", "") >>
    \o FetchCredentials \o OpenDatabase

\* weather-api defaultConfigFunc (returns error; F panics on it)
ApiConfig ==
    EnableStackdriverTrace \o NewStackdriverLogger \o
    << St("Getenv", "CONFIGURATION_BUCKET_NAME", ""),
       St("NewStorageClient", "", "") >>
    \o FetchCredentials \o
    << St("sqlOpen", "", "global"),
       St("SetMaxIdleConns", "", ""),
       St("SetMaxOpenConns", "", "") >>

\* weather-api defaultConfigFunc of the config.err variant
ApiErrConfig ==
    << St("Getenv", "GCP_PROJECT", ""),
       St("NewExporter", "", ""),
       St("RegisterExporter", "", ""),
       St("Getenv", "CONFIGURATION_BUCKET_NAME", ""),
       St("NewStorageClient", "", "") >>
    \o FetchCredentials \o OpenDatabase

\* weather-assistant defaultConfigFunc (returns error; F panics on it)
AssistantConfig ==
    << St("Getenv", "WEATHER_API_URL", "weatherApiUrl") >>
    \o EnableStackdriverTrace \o NewStackdriverLogger

\* weather-assistant defaultConfigFunc of the config.err variant
AssistantErrConfig ==
    << St("Getenv", "WEATHER_API_URL", "weatherApiUrl"),
       St("Getenv", "GCP_PROJECT", ""),
       St("NewExporter", "", ""),
       St("RegisterExporter", "", "") >>

\* weather-frontend defaultConfigFunc
FrontendConfig ==
    << St("Getenv", "GCP_PROJECT", ""),
       St("NewExporter", "", ""),
       St("RegisterExporter", "", ""),
       St("ParseFiles", "", ""),
       St("NewHTTPClient", "", "") >>

\* configFunc of a variant
ConfigFunc(v) ==
    CASE v = Collector    -> CollectorConfig
      [] v = Api          -> ApiConfig
      [] v = ApiErr       -> ApiErrConfig
      [] v = Assistant    -> AssistantConfig
      [] v = AssistantErr -> AssistantErrConfig
      [] v = Frontend     -> FrontendConfig

\* The environment variables a variant's routine reads.
RequiredEnv(v) ==
    { ConfigFunc(v)[i].name :
        i \in { j \in 1..Len(ConfigFunc(v)) : ConfigFunc(v)[j].op = "Getenv" } }

EnvNames ==
    { "GCP_PROJECT", "CONFIGURATION_BUCKET_NAME", "WEATHER_API_URL",
      "FUNCTION_NAME", "FUNCTION_REGION",
      "PGSSLCERT", "PGSSLKEY", "PGSSLROOTCERT", "PGPASSWORD" }

PgSslNames == { "PGSSLCERT", "PGSSLKEY", "PGSSLROOTCERT" }

ObjectNames == { "maps-api-key", "password", "client.pem", "client.key", "server.pem" }

\* ------------------------------------------------------ program constants
MaxIdleConns == 1        \* db.SetMaxIdleConns(1)
MaxOpenConns == 1        \* db.SetMaxOpenConns(1)

\* ----------------------------------------------------------------- state
VARIABLES
    variant,    \* which handler this process serves
    alive,      \* FALSE once an unrecovered panic has ended the process
    env,        \* the process environment: name -> value
    once,       \* sync.Once: [done, m] (m = the goroutine holding o.m, 0 = free)
    config,     \* the package-level configuration the handlers read
    cfg,        \* frame of the running configFunc: [pc, ret, objs, db]
    fx,         \* side effects outside the process state: [exporter, tempFiles]
    pool,       \* the sql.DB built by sql.Open
    runs,       \* number of times configFunc has been entered
    executed,   \* the steps of configFunc executed so far, in order
    failedAt,   \* index of the first step of configFunc that failed, 0 = none
    pc,         \* position of each request goroutine
    input,      \* the request each goroutine is serving
    resp,       \* what each goroutine has answered
    saw,        \* the bootstrap outcome each goroutine observed
    table,      \* rows of the weather table
    firstLoc,   \* per event, the location of its first upsert
    lastLoc,    \* per event, the location of its latest upsert
    lastTemp    \* per event, the temperature of its latest upsert

vars == << variant, alive, env, once, config, cfg, fx, pool, runs, executed,
           failedAt, pc, input, resp, saw, table, firstLoc, lastLoc, lastTemp >>

bootVars == << env, config, cfg, fx, pool, runs, executed, failedAt >>
dataVars == << table, firstLoc, lastLoc, lastTemp >>

Events == { "GopherCon", "GothamGo" }
Locations == { "Denver", "New York" }
Temperatures == { 72, 80 }

\* A trigger payload: its form and the event and location it carries.
NoPayload == [form |-> "", event |-> "", location |-> ""]
Payloads == [form : {"direct", "wrapper"}, event : Events, location : Locations]

NoInput == [event |-> "", location |-> "", temperature |-> 0, payload |-> NoPayload]

\* The top-level keys of the payload's JSON object: the message itself, or
\* an envelope holding the encoded message under "data".
Keys(p) == IF p.form = "direct" THEN {"event", "location"} ELSE {"data"}

\* json.Unmarshal into PubSubMessage{Event `json:"event"`, Location
\* `json:"location"`}: a field whose key is absent keeps its zero value.
Decode(p) ==
    [event |-> IF "event" \in Keys(p) THEN p.event ELSE "",
     location |-> IF "location" \in Keys(p) THEN p.location ELSE "",
     temperature |-> 0, payload |-> p]
NoResp ==
    [status |-> "none", event |-> "", location |-> "", temperature |-> 0,
     err |-> "", text |-> << >>, apiCode |-> 0]
Status(s) == [NoResp EXCEPT !.status = s]

\* An error answer: the status and the error text the handler logs (part_000
\* also sends it as the body).
Failure(s, e) == [NoResp EXCEPT !.status = s, !.err = e]

\* The answer a, remembering the status code the weather API replied with.
After(reply, a) == [a EXCEPT !.apiCode = reply.code]

\* sql.ErrNoRows, a driver failure, and the text of the 400 for a missing event.
ErrNoRows == "sql: no rows in result set"
DriverError == "driver: bad connection"
MissingEventText == "missing event query parameter"

InitConfig ==
    [ err |-> NoErr, db |-> FALSE, mc |-> FALSE, logger |-> FALSE,
      weatherApiUrl |-> NoValue, httpClient |-> FALSE, htmlTemplate |-> FALSE ]

InitCfg == [ pc |-> 0, ret |-> NoErr, objs |-> [o \in ObjectNames |-> NoValue], db |-> FALSE ]

\* A sql.DB as sql.Open leaves it: no limit on open connections (0), two
\* idle connections kept, none open yet.
InitPool ==
    [ opened |-> FALSE, dsn |-> NoValue, maxOpen |-> 0,
      maxIdle |-> 2, numOpen |-> 0, numIdle |-> 0 ]

\* The rows another process may have stored before a query handler starts.
StoredTables ==
    { {}, { [event |-> "GopherCon", location |-> "Denver", temperature |-> 72] } }

Init ==
    /\ variant \in Variants
    /\ alive = TRUE
    /\ \E missing \in SUBSET RequiredEnv(variant) :
         /\ Cardinality(missing) <= MaxMissing
         /\ env = [n \in EnvNames |->
                    IF n \in missing \/ n \in PgSslNames \/ n = "PGPASSWORD"
                    THEN NoValue ELSE SomeValue]
    /\ once = [done |-> FALSE, m |-> 0]
    /\ config = InitConfig
    /\ cfg = InitCfg
    /\ fx = [exporter |-> FALSE, tempFiles |-> 0]
    /\ pool = InitPool
    /\ runs = 0
    /\ executed = <<>>
    /\ failedAt = 0
    /\ pc = [r \in Workers |-> "idle"]
    /\ input = [r \in Workers |-> NoInput]
    /\ resp = [r \in Workers |-> NoResp]
    /\ saw = [r \in Workers |-> "none"]
    /\ table \in (IF variant \in {Api, ApiErr} THEN StoredTables ELSE {{}})
    /\ firstLoc = [e \in Events |-> ""]
    /\ lastLoc = [e \in Events |-> ""]
    /\ lastTemp = [e \in Events |-> 0]

\* ------------------------------------------------------- request arrival
\* The inputs a request of the variant can carry.
Inputs(v) ==
    CASE v = Collector -> { Decode(p) : p \in Payloads }
      [] v \in {Api, ApiErr} ->
           [event : Events \cup {""}, location : {""}, temperature : {0},
            payload : {NoPayload}]
      [] OTHER -> [event : {"GopherCon", ""}, location : {""}, temperature : {0},
                   payload : {NoPayload}]

\* The platform hands a request to F on a fresh goroutine; what the request
\* carries is drawn where F first reads it.
Arrive(r) ==
    /\ alive
    /\ pc[r] = "idle"
    /\ pc' = [pc EXCEPT ![r] = "Do"]
    /\ UNCHANGED << variant, alive, once, bootVars, dataVars, input, resp, saw >>

\* ------------------------------------------------------------- sync.Once
\* Where F continues when once.Do returns normally: the config.err variants
\* test config.Error(), the panicking variants go straight on.
AfterDo(v) == IF v \in PanicVariants THEN "handler" ELSE "check"

\* Do's fast path: if atomic.LoadUint32(&o.done) == 0 { o.doSlow(f) }
OnceDo(r) ==
    /\ alive
    /\ pc[r] = "Do"
    /\ IF once.done
       THEN /\ pc' = [pc EXCEPT ![r] = AfterDo(variant)]
            /\ saw' = [saw EXCEPT ![r] =
                         IF variant \in PanicVariants THEN "ok" ELSE saw[r]]
       ELSE /\ pc' = [pc EXCEPT ![r] = "doSlow"]
            /\ saw' = saw
    /\ UNCHANGED << variant, alive, once, bootVars, dataVars, input, resp >>

\* A Once whose slow path does not look at done again under the lock.
DoSlowCallsF_unchecked(o) == TRUE

\* doSlow under o.m: if o.done == 0 { defer store(done, 1); f() }
DoSlowCallsF(o) == ~o.done

\* doSlow: o.m.Lock(); then either run f or find it done and unlock.
DoSlow(r) ==
    /\ alive
    /\ pc[r] = "doSlow"
    /\ once.m = 0
    /\ IF DoSlowCallsF(once)
       THEN /\ once' = [once EXCEPT !.m = r]
            /\ cfg' = [cfg EXCEPT !.pc = 1, !.ret = NoErr]
            /\ runs' = runs + 1
            /\ pc' = [pc EXCEPT ![r] = "configFunc"]
            /\ saw' = saw
       ELSE /\ UNCHANGED << once, cfg, runs >>
            /\ pc' = [pc EXCEPT ![r] = AfterDo(variant)]
            /\ saw' = [saw EXCEPT ![r] =
                         IF variant \in PanicVariants THEN "ok" ELSE saw[r]]
    /\ UNCHANGED << variant, alive, env, config, fx, pool, executed, failedAt,
                    dataVars, input, resp >>

\* ------------------------------------------------------------ configFunc
\* Calls whose error result the routine tests.
FallibleOps ==
    { "NewExporter", "NewLogger", "NewStorageClient", "objectToString",
      "objectToTempFile", "NewMapsClient", "Setenv", "sqlOpen", "ParseFiles" }

\* Whether step st can have the outcome ok in environment e.
Possible(st, ok, e) ==
    CASE st.op = "Getenv"      -> ok = (e[st.name] # NoValue)
      [] st.op \in FallibleOps -> TRUE
      [] OTHER                 -> ok

\* The error a failing step leaves behind.
StepError(st) ==
    IF st.op = "Getenv" THEN EnvError(st.name) ELSE CallError(st.op, st.name)

\* A routine that forgets the return after a failed step.
NextStep_noReturn(i, ok, n) == IF i < n THEN i + 1 ELSE 0

\* Every failing step is followed by return: the routine goes on to step
\* i + 1 only after a success, and ends after its last step (0 = returned).
NextStep(i, ok, n) == IF ok /\ i < n THEN i + 1 ELSE 0

\* Contents an objectToString step can read.
Contents(st) == IF st.name = "password" THEN PasswordObjects ELSE ApiKeyObjects

\* env after the step
StepEnv(st, ok, e, c) ==
    IF st.op = "Setenv" /\ ok THEN [e EXCEPT ![st.name] = c.objs[st.arg]] ELSE e

\* the routine's locals after the step
StepLocals(st, ok, c, content, files) ==
    CASE st.op = "objectToString" /\ ok ->
           [c EXCEPT !.objs[st.name] = TrimSpace(content)]
      [] st.op = "objectToTempFile" /\ ok ->
           [c EXCEPT !.objs[st.name] = TempName(files + 1)]
      [] st.op = "sqlOpen" /\ ok -> [c EXCEPT !.db = TRUE]
      [] OTHER -> c

\* the sql.DB after the step
StepPool(st, ok, p, c) ==
    CASE st.op = "sqlOpen" /\ ok ->
           [InitPool EXCEPT !.opened = TRUE, !.dsn = Dsn(c.objs["password"])]
      [] st.op = "SetMaxIdleConns" -> [p EXCEPT !.maxIdle = MaxIdleConns]
      [] st.op = "SetMaxOpenConns" ->
           [p EXCEPT !.maxOpen = MaxOpenConns,
                     !.maxIdle = IF p.maxIdle > MaxOpenConns
                                 THEN MaxOpenConns ELSE p.maxIdle]
      [] OTHER -> p

\* the package-level configuration after the step
StepConfig(st, ok, g, e, c, v) ==
    LET g1 == IF ok \/ v \in PanicVariants THEN g
              ELSE [g EXCEPT !.err = StepError(st)]
    IN CASE st.op = "Getenv" /\ st.arg = "weatherApiUrl" ->
              [g1 EXCEPT !.weatherApiUrl = e[st.name]]
         [] st.op = "NewLogger" /\ ok      -> [g1 EXCEPT !.logger = TRUE]
         [] st.op = "NewMapsClient" /\ ok  -> [g1 EXCEPT !.mc = TRUE]
         [] st.op = "ParseFiles" /\ ok     -> [g1 EXCEPT !.htmlTemplate = TRUE]
         [] st.op = "NewHTTPClient"        -> [g1 EXCEPT !.httpClient = TRUE]
         [] st.op = "sqlOpen" /\ ok /\ st.arg = "global" -> [g1 EXCEPT !.db = TRUE]
         [] st.op = "PublishDB"            -> [g1 EXCEPT !.db = c.db]
         [] OTHER -> g1

\* One step of configFunc, run by the goroutine that holds the Once.
ConfigStep(r) ==
    /\ alive
    /\ pc[r] = "configFunc"
    /\ LET prog == ConfigFunc(variant)
           i == cfg.pc
           st == prog[i]
       IN \E ok \in BOOLEAN, created \in BOOLEAN, content \in Contents(st) :
            /\ Possible(st, ok, env)
            /\ IF st.op = "objectToTempFile" THEN (ok => created) ELSE created
            /\ LET next == NextStep(i, ok, Len(prog))
                   c1 == StepLocals(st, ok, cfg, content, fx.tempFiles)
               IN /\ env' = StepEnv(st, ok, env, cfg)
                  /\ config' = StepConfig(st, ok, config, env, cfg, variant)
                  /\ pool' = StepPool(st, ok, pool, cfg)
                  /\ cfg' = [c1 EXCEPT !.pc = next,
                                       !.ret = IF ok THEN c1.ret ELSE StepError(st)]
                  /\ fx' = [fx EXCEPT
                              !.exporter = fx.exporter \/ st.op = "RegisterExporter",
                              !.tempFiles = IF st.op = "objectToTempFile" /\ created
                                            THEN fx.tempFiles + 1 ELSE fx.tempFiles]
                  /\ executed' = Append(executed, i)
                  /\ failedAt' = IF ~ok /\ failedAt = 0 THEN i ELSE failedAt
                  /\ pc' = [pc EXCEPT ![r] = IF next = 0 THEN "doReturn" ELSE "configFunc"]
    /\ UNCHANGED << variant, alive, once, runs, dataVars, input, resp, saw >>

\* A Once that stores done and unlocks after f, but not in a defer.
OnceAfterF_noDefer(o, panicking) ==
    IF panicking THEN o ELSE [done |-> TRUE, m |-> 0]

\* defer o.m.Unlock(); defer atomic.StoreUint32(&o.done, 1): both run when f
\* returns and when it panics.
OnceAfterF(o, panicking) == [done |-> TRUE, m |-> 0]

\* f has returned or panicked: doSlow's deferred store of done and Unlock
\* run either way; in the panicking variants F's closure panics on an error.
DoReturn(r) ==
    /\ alive
    /\ pc[r] = "doReturn"
    /\ once' = OnceAfterF(once, variant \in PanicVariants /\ cfg.ret # NoErr)
    /\ IF variant \in PanicVariants
       THEN IF cfg.ret # NoErr
            THEN /\ pc' = [pc EXCEPT ![r] = "panic"]
                 /\ saw' = [saw EXCEPT ![r] = "fail"]
            ELSE /\ pc' = [pc EXCEPT ![r] = "handler"]
                 /\ saw' = [saw EXCEPT ![r] = "ok"]
       ELSE /\ pc' = [pc EXCEPT ![r] = "check"]
            /\ saw' = saw
    /\ UNCHANGED << variant, alive, bootVars, dataVars, input, resp >>

\* The status a config.err variant answers with when config.Error() != nil.
ConfigErrorStatus(v) ==
    CASE v = Collector    -> "error"
      [] v = AssistantErr -> "500"
      [] OTHER            -> "400"

\* if config.Error() != nil { ...; return }; past it the collector works on
\* its parameter m, which the platform decoded from the trigger's payload.
CheckConfig(r) ==
    /\ alive
    /\ pc[r] = "check"
    /\ IF config.err # NoErr
       THEN /\ pc' = [pc EXCEPT ![r] = "done"]
            /\ resp' = [resp EXCEPT ![r] = Status(ConfigErrorStatus(variant))]
            /\ saw' = [saw EXCEPT ![r] = "fail"]
       ELSE /\ pc' = [pc EXCEPT ![r] = "handler"]
            /\ resp' = resp
            /\ saw' = [saw EXCEPT ![r] = "ok"]
    /\ \E m \in Inputs(variant) :
         input' = [input EXCEPT ![r] =
                     IF variant = Collector /\ config.err = NoErr THEN m ELSE NoInput]
    /\ UNCHANGED << variant, alive, once, bootVars, dataVars >>

\* A panic leaves F. net/http recovers it and drops the connection ...
Recover(r) ==
    /\ alive
    /\ pc[r] = "panic"
    /\ pc' = [pc EXCEPT ![r] = "done"]
    /\ resp' = [resp EXCEPT ![r] = IF resp[r].status = "none"
                                   THEN Status("aborted") ELSE resp[r]]
    /\ UNCHANGED << variant, alive, once, bootVars, dataVars, input, saw >>

\* ... and a caller that does not recover lets it end the process.
Crash(r) ==
    /\ alive
    /\ pc[r] = "panic"
    /\ alive' = FALSE
    /\ UNCHANGED << variant, once, bootVars, dataVars, pc, input, resp, saw >>

\* ---------------------------------------------------------- database/sql
\* DB.conn: reuse the idle connection, or open one while the limit allows.
CanAcquire(p) ==
    \/ p.numIdle > 0
    \/ p.maxOpen <= 0
    \/ p.numOpen < p.maxOpen

Acquired(p) ==
    IF p.numIdle > 0 THEN [p EXCEPT !.numIdle = p.numIdle - 1]
    ELSE [p EXCEPT !.numOpen = p.numOpen + 1]

\* DB.putConn: keep the connection idle if the idle limit allows and the
\* driver did not report it bad, else close it.
Released(p, bad) ==
    IF ~bad /\ p.numIdle < p.maxIdle THEN [p EXCEPT !.numIdle = p.numIdle + 1]
    ELSE [p EXCEPT !.numOpen = p.numOpen - 1]

\* An upsert whose update clause also sets location.
Upsert_setsLocation(tbl, e, l, t) ==
    IF \E row \in tbl : row.event = e
    THEN { IF row.event = e THEN [row EXCEPT !.temperature = t, !.location = l]
           ELSE row : row \in tbl }
    ELSE tbl \cup { [event |-> e, location |-> l, temperature |-> t] }

\* INSERT ... ON CONFLICT (event) DO UPDATE SET temperature = EXCLUDED.temperature
Upsert(tbl, e, l, t) ==
    IF \E row \in tbl : row.event = e
    THEN { IF row.event = e THEN [row EXCEPT !.temperature = t] ELSE row : row \in tbl }
    ELSE tbl \cup { [event |-> e, location |-> l, temperature |-> t] }

\* SELECT event,location,temperature FROM weather WHERE event = $1
Select(tbl, e) == { row \in tbl : row.event = e }

\* The deferred logger.Flush() of the panicking variants dereferences logger.
Return(v, g) == IF v \in PanicVariants /\ ~g.logger THEN "panic" ELSE "done"

\* logger.Log(...) before an error answer: a nil logger panics first.
LogThen(v, g, answer, old) == IF v \in PanicVariants /\ ~g.logger THEN old ELSE answer

\* F's parameters and locals are gone once F has returned.
Locals(m, to) == IF to \in {"done", "panic"} THEN NoInput ELSE m

\* config.db.Exec / db.QueryRow take a connection from the pool; a nil
\* handle is dereferenced, and the driver may fail to connect.
AcquireConn(r) ==
    /\ alive
    /\ pc[r] \in {"updateDatabase", "getWeatherForEvent"}
    /\ IF ~config.db
       THEN /\ pc' = [pc EXCEPT ![r] = "panic"]
            /\ input' = [input EXCEPT ![r] = NoInput]
            /\ UNCHANGED << pool, resp >>
       ELSE /\ CanAcquire(pool)
            /\ \/ /\ pool' = Acquired(pool)
                  /\ pc' = [pc EXCEPT ![r] = "exec"]
                  /\ UNCHANGED << resp, input >>
               \/ /\ pool.numIdle = 0
                  /\ pool' = pool
                  /\ pc' = [pc EXCEPT ![r] = Return(variant, config)]
                  /\ input' = [input EXCEPT ![r] = NoInput]
                  /\ resp' = [resp EXCEPT ![r] =
                                IF variant = Collector THEN Status("error")
                                ELSE LogThen(variant, config,
                                             Failure("500", DriverError), resp[r])]
    /\ UNCHANGED << variant, alive, env, once, config, cfg, fx, runs, executed,
                    failedAt, dataVars, saw >>

\* ------------------------------------------------- weather-data-collector
\* findPlaceIDFromText(m.Location): config.mc.FindPlaceFromText (which
\* rejects an empty Input with an error), then r.Candidates[0]
FindPlaceIDFromText(r) ==
    /\ alive
    /\ variant = Collector
    /\ pc[r] = "handler"
    /\ \E out \in {"ok", "error", "noCandidates"} :
         LET to == CASE ~config.mc -> "panic"
                     [] out = "ok" -> "getLatLng"
                     [] out = "error" -> "done"
                     [] OTHER -> "panic"
         IN /\ input[r].location = "" => out = "error"
            /\ pc' = [pc EXCEPT ![r] = to]
            /\ input' = [input EXCEPT ![r] = Locals(input[r], to)]
            /\ resp' = [resp EXCEPT ![r] =
                          IF config.mc /\ out = "error" THEN Status("error") ELSE resp[r]]
    /\ UNCHANGED << variant, alive, once, bootVars, dataVars, saw >>

\* getLatLng: config.mc.PlaceDetails
GetLatLng(r) ==
    /\ alive
    /\ pc[r] = "getLatLng"
    /\ \E ok \in BOOLEAN :
         LET to == IF ok THEN "getTemperature" ELSE "done"
         IN /\ pc' = [pc EXCEPT ![r] = to]
            /\ input' = [input EXCEPT ![r] = Locals(input[r], to)]
            /\ resp' = [resp EXCEPT ![r] = IF ok THEN resp[r] ELSE Status("error")]
    /\ UNCHANGED << variant, alive, once, bootVars, dataVars, saw >>

\* getTemperature: GET the hourly forecast, decode, Periods[0].Temperature
GetTemperature(r) ==
    /\ alive
    /\ pc[r] = "getTemperature"
    /\ \E out \in {"ok", "error", "noPeriods"}, t \in Temperatures :
         LET to == CASE out = "ok" -> "updateDatabase"
                     [] out = "error" -> "done"
                     [] OTHER -> "panic"
         IN /\ pc' = [pc EXCEPT ![r] = to]
            /\ input' = [input EXCEPT ![r] =
                           Locals([input[r] EXCEPT !.temperature = t], to)]
            /\ resp' = [resp EXCEPT ![r] =
                          IF out = "error" THEN Status("error") ELSE resp[r]]
    /\ UNCHANGED << variant, alive, once, bootVars, dataVars, saw >>

\* updateDatabase: config.db.Exec(query, event, location, temperature)
UpdateDatabase(r) ==
    /\ alive
    /\ variant = Collector
    /\ pc[r] = "exec"
    /\ LET m == input[r]
       IN \E ok \in BOOLEAN, bad \in BOOLEAN :
            /\ ok => ~bad
            /\ pool' = Released(pool, bad)
            /\ IF ok
               THEN /\ table' = Upsert(table, m.event, m.location, m.temperature)
                    /\ firstLoc' = IF firstLoc[m.event] = ""
                                   THEN [firstLoc EXCEPT ![m.event] = m.location]
                                   ELSE firstLoc
                    /\ lastLoc' = [lastLoc EXCEPT ![m.event] = m.location]
                    /\ lastTemp' = [lastTemp EXCEPT ![m.event] = m.temperature]
                    /\ resp' = [resp EXCEPT ![r] = Status("nil")]
               ELSE /\ UNCHANGED dataVars
                    /\ resp' = [resp EXCEPT ![r] = Status("error")]
            /\ pc' = [pc EXCEPT ![r] = "done"]
            /\ input' = [input EXCEPT ![r] = NoInput]
    /\ UNCHANGED << variant, alive, env, once, config, cfg, fx, runs, executed,
                    failedAt, saw >>

\* ------------------------------------------------------------ weather-api
\* A handler that never rejects an event.
MissingEvent_never(e) == FALSE

\* if event == ""
MissingEvent(e) == e = ""

\* event := r.FormValue("event"); empty -> 400
ReadEvent(r) ==
    /\ alive
    /\ variant \in {Api, ApiErr}
    /\ pc[r] = "handler"
    /\ \E m \in Inputs(variant) :
         IF MissingEvent(m.event)
         THEN /\ pc' = [pc EXCEPT ![r] = Return(variant, config)]
              /\ resp' = [resp EXCEPT ![r] =
                            LogThen(variant, config,
                                    Failure("400", MissingEventText), resp[r])]
              /\ input' = [input EXCEPT ![r] = NoInput]
         ELSE /\ pc' = [pc EXCEPT ![r] = "getWeatherForEvent"]
              /\ resp' = resp
              /\ input' = [input EXCEPT ![r] = m]
    /\ UNCHANGED << variant, alive, once, bootVars, dataVars, saw >>

\* A lookup that treats an empty result as success.
WeatherAnswer_emptyOK(rows, ok) ==
    CASE ~ok -> { Failure("500", DriverError) }
      [] rows = {} -> { Status("200") }
      [] OTHER -> { [status |-> "200", event |-> row.event,
                     location |-> row.location, temperature |-> row.temperature,
                     err |-> "", text |-> << >>,
                     apiCode |-> 0] : row \in rows }

\* The answers F gives for what QueryRow(...).Scan returned: the row as JSON,
\* or 500 for sql.ErrNoRows as for any other error.
WeatherAnswer(rows, ok) ==
    CASE ~ok -> { Failure("500", DriverError) }
      [] rows = {} -> { Failure("500", ErrNoRows) }
      [] OTHER -> { [status |-> "200", event |-> row.event,
                     location |-> row.location, temperature |-> row.temperature,
                     err |-> "", text |-> << >>,
                     apiCode |-> 0] : row \in rows }

\* getWeatherForEvent: QueryRow(...).Scan, then the JSON answer
GetWeatherForEvent(r) ==
    /\ alive
    /\ variant \in {Api, ApiErr}
    /\ pc[r] = "exec"
    /\ \E ok \in BOOLEAN, bad \in BOOLEAN :
         /\ ok => ~bad
         /\ pool' = Released(pool, bad)
         /\ \E a \in WeatherAnswer(Select(table, input[r].event), ok) :
              resp' = [resp EXCEPT ![r] =
                         IF a.status = "200" THEN a
                         ELSE LogThen(variant, config, a, resp[r])]
         /\ pc' = [pc EXCEPT ![r] = Return(variant, config)]
         /\ input' = [input EXCEPT ![r] = NoInput]
    /\ UNCHANGED << variant, alive, env, once, config, cfg, fx, runs, executed,
                    failedAt, dataVars, saw >>

\* ------------------------------------------------------ weather-assistant
\* The request bodies a webhook call can carry: nothing, bytes that are not
\* JSON, or a webhook envelope (whose parameters may lack the event).
WebhookBodies == { "empty", "invalid", "envelope" }

\* json.Unmarshal(data, &webhookRequest) fails on no input and on bad JSON.
UnmarshalFails(kind) == kind \in { "empty", "invalid" }

\* What the call to the weather API can come back with: a transport error,
\* or a status with a body that is a weather object, JSON null or not JSON.
Replies ==
    { [ok |-> FALSE, code |-> 0, body |-> "garbage"] }
        \cup [ok : {TRUE}, code : {200, 500}, body : {"weather", "null", "garbage"}]

\* fmt.Sprintf("The current temperature in %s is %d degrees fahrenheit.", ...)
FulfillmentText(l, t) ==
    << "The current temperature in ", l, " is ", t, " degrees fahrenheit." >>

\* ioutil.ReadAll(r.Body), json.Unmarshal into the envelope, parameters["event"]
ReadWebhook(r) ==
    /\ alive
    /\ variant \in {Assistant, AssistantErr}
    /\ pc[r] = "handler"
    /\ \E kind \in WebhookBodies, m \in Inputs(variant) :
         IF UnmarshalFails(kind)
         THEN /\ m = NoInput
              /\ pc' = [pc EXCEPT ![r] = Return(variant, config)]
              /\ resp' = [resp EXCEPT ![r] =
                            LogThen(variant, config,
                                    Failure("400", "unmarshal"), resp[r])]
              /\ input' = [input EXCEPT ![r] = NoInput]
         ELSE /\ pc' = [pc EXCEPT ![r] = "getWeather"]
              /\ resp' = resp
              /\ input' = [input EXCEPT ![r] = m]
    /\ UNCHANGED << variant, alive, once, bootVars, dataVars, saw >>

\* getWeather(ctx, event), then the fulfillment answer built from *weather
GetWeather(r) ==
    /\ alive
    /\ variant \in {Assistant, AssistantErr}
    /\ pc[r] = "getWeather"
    /\ \E reply \in Replies, l \in Locations, t \in Temperatures :
         /\ reply.ok => config.weatherApiUrl # NoValue
         /\ LET failed == ~reply.ok \/ reply.code # 200 \/ reply.body = "garbage"
                nilWeather == ~failed /\ reply.body = "null"
            IN /\ resp' = [resp EXCEPT ![r] =
                             CASE failed ->
                                    LogThen(variant, config,
                                            After(reply, Failure("500", "getWeather")),
                                            resp[r])
                               [] nilWeather -> resp[r]
                               [] OTHER ->
                                    [status |-> "200", event |-> input[r].event,
                                     location |-> l, temperature |-> t,
                                     err |-> "", text |-> FulfillmentText(l, t),
                                     apiCode |-> reply.code]]
               /\ pc' = [pc EXCEPT ![r] = IF nilWeather THEN "panic"
                                          ELSE Return(variant, config)]
    /\ input' = [input EXCEPT ![r] = NoInput]
    /\ UNCHANGED << variant, alive, once, bootVars, dataVars, saw >>

\* ------------------------------------------------------- weather-frontend
\* The event the page asks for when the request names none.
DefaultEvent == "GopherCon"

\* event := r.FormValue("event"), defaulted; http.NewRequest for the API
FrontendRequest(r) ==
    /\ alive
    /\ variant = Frontend
    /\ pc[r] = "handler"
    /\ \E m \in Inputs(variant), ok \in BOOLEAN :
         IF ok
         THEN /\ pc' = [pc EXCEPT ![r] = "callApi"]
              /\ input' = [input EXCEPT ![r] =
                             IF m.event = "" THEN [m EXCEPT !.event = DefaultEvent]
                             ELSE m]
              /\ resp' = resp
         ELSE /\ pc' = [pc EXCEPT ![r] = "done"]
              /\ input' = [input EXCEPT ![r] = NoInput]
              /\ resp' = [resp EXCEPT ![r] = Failure("500", "NewRequest")]
    /\ UNCHANGED << variant, alive, once, bootVars, dataVars, saw >>

\* httpClient.Do, ReadAll, json.Unmarshal into a Weather, htmlTemplate.Execute
FrontendPage(r) ==
    /\ alive
    /\ variant = Frontend
    /\ pc[r] = "callApi"
    /\ \E reply \in Replies, l \in Locations, t \in Temperatures,
          rendered \in BOOLEAN :
         /\ resp' = [resp EXCEPT ![r] =
                       CASE ~config.httpClient -> resp[r]
                         [] ~reply.ok -> Failure("500", "Do")
                         [] reply.body = "garbage" ->
                              After(reply, Failure("500", "unmarshal"))
                         [] ~rendered ->
                              After(reply, Failure("500", "Unable to load the page"))
                         [] reply.body = "null" -> After(reply, Status("200"))
                         [] OTHER ->
                              [status |-> "200", event |-> input[r].event,
                               location |-> l, temperature |-> t, err |-> "",
                               text |-> << >>, apiCode |-> reply.code]]
         /\ pc' = [pc EXCEPT ![r] = IF config.httpClient THEN "done" ELSE "panic"]
    /\ input' = [input EXCEPT ![r] = NoInput]
    /\ UNCHANGED << variant, alive, once, bootVars, dataVars, saw >>

\* ---------------------------------------------------------- specification
Next ==
    \E r \in Workers :
        \/ Arrive(r)
        \/ OnceDo(r)
        \/ DoSlow(r)
        \/ ConfigStep(r)
        \/ DoReturn(r)
        \/ CheckConfig(r)
        \/ Recover(r)
        \/ Crash(r)
        \/ AcquireConn(r)
        \/ FindPlaceIDFromText(r)
        \/ GetLatLng(r)
        \/ GetTemperature(r)
        \/ UpdateDatabase(r)
        \/ ReadEvent(r)
        \/ GetWeatherForEvent(r)
        \/ ReadWebhook(r)
        \/ GetWeather(r)
        \/ FrontendRequest(r)
        \/ FrontendPage(r)

Spec == Init /\ [][Next]_vars

\* The Go scheduler keeps running every goroutine that can run: a caller of
\* once.Do takes its next step, the goroutine inside configFunc goes on to
\* its end, and a goroutine blocked on the Once's mutex gets it once it
\* stays free.
Fairness ==
    \A r \in Workers :
        /\ WF_vars(OnceDo(r))
        /\ WF_vars(DoSlow(r))
        /\ WF_vars(ConfigStep(r))
        /\ WF_vars(DoReturn(r))

FairSpec == Spec /\ Fairness

\* ------------------------------------------------------------ hello world
\* The function of helloworld/cloud-functions, known from its test: TestF
\* builds a request with httptest.NewRequest, serves it with
\* http.HandlerFunc(F) and reads the recorded status and body.
HelloWorld == "helloworld"

\* The requests the handler can be served.
HelloRequests == [method : {"GET", "POST"}, path : {"/", "/hello"}, body : {"", "x"}]

\* A greeting without the line end.
HelloBody_noNewline == "Hello, World!"

\* The body F writes.
HelloBody == "Hello, World!\n"

HelloInit ==
    /\ variant = HelloWorld
    /\ alive = TRUE
    /\ env = [n \in EnvNames |-> NoValue]
    /\ once = [done |-> FALSE, m |-> 0]
    /\ config = InitConfig
    /\ cfg = InitCfg
    /\ fx = [exporter |-> FALSE, tempFiles |-> 0]
    /\ pool = InitPool
    /\ runs = 0
    /\ executed = << >>
    /\ failedAt = 0
    /\ pc = [r \in Workers |-> "idle"]
    /\ input = [r \in Workers |-> NoInput]
    /\ resp = [r \in Workers |-> NoResp]
    /\ saw = [r \in Workers |-> "none"]
    /\ table = {}
    /\ firstLoc = [e \in Events |-> ""]
    /\ lastLoc = [e \in Events |-> ""]
    /\ lastTemp = [e \in Events |-> 0]

\* r := httptest.NewRequest(...); handler.ServeHTTP(w, r)
ServeHTTP(r) ==
    /\ variant = HelloWorld
    /\ pc[r] = "idle"
    /\ \E req \in HelloRequests : input' = [input EXCEPT ![r] = req]
    /\ pc' = [pc EXCEPT ![r] = "F"]
    /\ UNCHANGED << variant, alive, once, bootVars, dataVars, resp, saw >>

\* F writes the greeting; the first write sends status 200.
HelloF(r) ==
    /\ variant = HelloWorld
    /\ pc[r] = "F"
    /\ resp' = [resp EXCEPT ![r] = [Status("200") EXCEPT !.text = HelloBody]]
    /\ pc' = [pc EXCEPT ![r] = "done"]
    /\ UNCHANGED << variant, alive, once, bootVars, dataVars, input, saw >>

HelloNext == \E r \in Workers : ServeHTTP(r) \/ HelloF(r)

HelloSpec == HelloInit /\ [][HelloNext]_vars

\* ============================================================== properties
\* Positions of F behind the configuration guard, where handler logic runs.
HandlerPcs ==
    { "handler", "getLatLng", "getTemperature", "updateDatabase",
      "getWeatherForEvent", "exec", "getWeather", "callApi" }

\* Positions of F after once.Do has returned or panicked.
PastDoPcs == HandlerPcs \cup { "check", "panic", "done" }

\* C1: over the process lifetime configFunc is entered at most once, it has
\* been entered and has finished before any request gets past once.Do, and
\* it is not entered again after an execution that failed.
C1_ConfigFuncExactlyOnce ==
    /\ runs <= 1
    /\ \A r \in Workers : pc[r] \in PastDoPcs => (runs = 1 /\ once.done /\ cfg.pc = 0)
    /\ \A i, j \in 1..Len(executed) : i < j => executed[i] < executed[j]

\* C1 witness: all the requests in flight have been served after a bootstrap
\* that failed, and configFunc ran once.
C1_Witness ==
    /\ failedAt # 0
    /\ runs = 1
    /\ \A r \in Workers : pc[r] = "done"

\* C2: every request that has been through the bootstrap observed the
\* outcome of its single execution: success if it succeeded, the
\* configuration failure if it failed.
C2_SameOutcome ==
    \A r \in Workers :
        saw[r] # "none" => saw[r] = (IF failedAt = 0 THEN "ok" ELSE "fail")

\* C3: a request is at its handler logic only if the bootstrap succeeded.
C3_FailClosed ==
    \A r \in Workers : pc[r] \in HandlerPcs => (once.done /\ failedAt = 0)

\* Answers that are a server error: a 5xx status, an error returned to the
\* trigger, or a connection the server dropped on a panic.
ServerErrors == { "500", "error", "aborted" }

\* C4: when the bootstrap stops at a required environment variable that is
\* unset, its error names that variable and every request that has been
\* answered was answered with a server error.
C4_MissingEnvServerError ==
    (failedAt # 0 /\ ConfigFunc(variant)[failedAt].op = "Getenv") =>
        /\ cfg.ret = EnvError(ConfigFunc(variant)[failedAt].name)
        /\ env[cfg.ret.name] = NoValue
        /\ ErrorString(cfg.ret)[1] = ConfigFunc(variant)[failedAt].name
        /\ \A r \in Workers : pc[r] = "done" => resp[r].status \in ServerErrors

\* C5: whenever the collector or the query handler is past its
\* configuration check, the database handle and (collector) the geocoding
\* client are set and the error field is nil.
C5_NoPartialSnapshot ==
    \A r \in Workers :
        (variant \in {Collector, Api, ApiErr} /\ pc[r] \in HandlerPcs) =>
            /\ config.db
            /\ variant = Collector => config.mc
            /\ config.err = NoErr

\* Whether the side effect of step st is present in the current state.
EffectPresent(st) ==
    CASE st.op = "RegisterExporter" -> fx.exporter
      [] st.op = "NewLogger"        -> config.logger
      [] st.op = "NewMapsClient"    -> config.mc
      [] st.op = "ParseFiles"       -> config.htmlTemplate
      [] st.op = "NewHTTPClient"    -> config.httpClient
      [] st.op = "objectToString"   -> cfg.objs[st.name] # NoValue
      [] st.op = "objectToTempFile" -> cfg.objs[st.name] # NoValue
      [] st.op = "Setenv"           -> env[st.name] # NoValue
      [] st.op = "sqlOpen"          -> pool.opened \/ cfg.db
      [] st.op = "SetMaxIdleConns"  -> pool.maxIdle # 2
      [] st.op = "SetMaxOpenConns"  -> pool.maxOpen # 0
      [] st.op = "PublishDB"        -> config.db
      [] OTHER                      -> FALSE

\* Number of objectToTempFile steps among the first k steps of a routine.
TempFileSteps(prog, k) ==
    Cardinality({ j \in 1..k : prog[j].op = "objectToTempFile" })

\* C6: once a step of the routine has failed, the failing step is the last
\* one executed and no step after it has left its side effect.
C6_ShortCircuit ==
    LET prog == ConfigFunc(variant)
    IN failedAt # 0 =>
         /\ executed = [k \in 1..failedAt |-> k]
         /\ \A j \in (failedAt + 1)..Len(prog) : ~EffectPresent(prog[j])
         /\ fx.tempFiles <= TempFileSteps(prog, failedAt)

\* C6 witness: the routine has returned after a failure in its middle, with
\* the effects of the earlier steps in place.
C6_Witness ==
    /\ once.done
    /\ failedAt > 1
    /\ failedAt < Len(ConfigFunc(variant))
    /\ fx.exporter
    /\ fx.tempFiles > 0

\* C7 as stated: the exporter is never registered while a required
\* environment variable is missing, and the geocoding client is never
\* constructed before the database handle has been opened.
C7_SpecifiedOrder ==
    /\ fx.exporter => \A n \in RequiredEnv(variant) : env[n] # NoValue
    /\ config.mc => pool.opened

Credentials == { "password", "client.pem", "client.key", "server.pem" }

\* C7 amended: the steps run in source order. The exporter is registered
\* only after GCP_PROJECT was found set; the logger and every bucket fetch
\* come after the exporter and after CONFIGURATION_BUCKET_NAME was found
\* set; the database is opened only after the four credentials were fetched
\* and the PGSSL* variables set; and in the collector the geocoding client
\* is constructed before the credentials are fetched and the database opened.
C7_SourceOrder ==
    /\ executed = [k \in 1..Len(executed) |-> k]
    /\ fx.exporter => env["GCP_PROJECT"] # NoValue
    /\ config.logger => fx.exporter
    /\ (fx.tempFiles > 0 \/ \E o \in ObjectNames : cfg.objs[o] # NoValue) =>
           (fx.exporter /\ env["CONFIGURATION_BUCKET_NAME"] # NoValue)
    /\ pool.opened =>
           /\ \A o \in Credentials : cfg.objs[o] # NoValue
           /\ \A n \in PgSslNames : env[n] # NoValue
    /\ variant = Collector =>
           ((pool.opened \/ \E o \in Credentials : cfg.objs[o] # NoValue) => config.mc)

\* C7 witness: the collector's routine has run to its end.
C7_Witness ==
    /\ variant = Collector
    /\ once.done
    /\ failedAt = 0
    /\ config.mc
    /\ config.db

\* The passwords the bucket can hold, as objectToString returns them.
Passwords == { TrimSpace(p) : p \in PasswordObjects }

\* C8: no environment variable ever holds the database password; the only
\* variables the bootstrap writes are PGSSLCERT, PGSSLKEY and PGSSLROOTCERT,
\* each a temp-file path; the password is in the connection string only.
C8_PasswordNeverInEnv ==
    /\ \A n \in EnvNames : env[n] \notin Passwords
    /\ \A n \in EnvNames :
         env[n] \notin {NoValue, SomeValue} =>
             (n \in PgSslNames /\ \E k \in 1..fx.tempFiles : env[n] = TempName(k))
    /\ pool.opened =>
         (cfg.objs["password"] \in Passwords /\ pool.dsn = Dsn(cfg.objs["password"]))

\* C8 witness: the password was fetched, the PGSSL* variables written and the
\* database opened with the connection string.
C8_Witness ==
    /\ pool.opened
    /\ cfg.objs["password"] = <<"s", "3">>
    /\ \A n \in PgSslNames : env[n] # NoValue

\* C9: the pool never has more than one connection open, handlers see the
\* handle only with both limits set to one, and at most one request is
\* running a statement at a time.
C9_AtMostOneConnection ==
    /\ pool.numOpen <= 1
    /\ pool.numIdle <= pool.numOpen
    /\ Cardinality({ r \in Workers : pc[r] = "exec" }) <= 1
    /\ \A r \in Workers :
         (pc[r] \in HandlerPcs /\ config.db) =>
             (pool.maxOpen = MaxOpenConns /\ pool.maxIdle = MaxIdleConns)

\* C9 witness: one request holds the connection while another waits for it.
C9_Witness ==
    \E r1, r2 \in Workers :
        /\ r1 # r2
        /\ pc[r1] = "exec"
        /\ pc[r2] \in {"updateDatabase", "getWeatherForEvent"}
        /\ pool.numOpen = 1

\* C10: the weather table holds exactly one row for each event that was
\* upserted, with the temperature of the latest upsert and the location of
\* the first, and no row for any other event.
C10_UpsertKeepsOneRow ==
    variant = Collector =>
        \A e \in Events :
            Select(table, e) =
                IF firstLoc[e] = "" THEN {}
                ELSE { [event |-> e, location |-> firstLoc[e],
                        temperature |-> lastTemp[e]] }

\* C10 witness: an event was upserted again with another location, and its
\* one row keeps the location of the first upsert.
C10_Witness ==
    \E row \in table :
        /\ Cardinality(table) = 1
        /\ lastLoc[row.event] # firstLoc[row.event]
        /\ row.location = firstLoc[row.event]
        /\ row.temperature = lastTemp[row.event]

\* C11: in the collector a failing pipeline step (a geocoding result without
\* candidates and a forecast without periods included) ends the invocation
\* with an error returned to the trigger's caller, never with a panic; the
\* upsert is attempted only with a temperature both earlier steps produced,
\* and the table holds no more rows than invocations that returned nil.
C11_FailingStepReturnsError ==
    variant = Collector =>
        /\ \A r \in Workers :
             /\ pc[r] # "panic"
             /\ pc[r] = "done" => resp[r].status \in {"nil", "error"}
             /\ pc[r] \in {"updateDatabase", "exec"} =>
                    /\ input[r].location \in Locations
                    /\ input[r].temperature \in Temperatures
        /\ Cardinality(table) <=
               Cardinality({ r \in Workers : resp[r].status = "nil" })

\* C12: when the query handler answers a lookup of an event that has no
\* stored row, the answer is a 500 and never a 200; and a 200 carries the
\* event, location and temperature of a row stored for the requested event.
C12_NoRowIsServerError ==
    [][\A r \in Workers :
         (variant \in {Api, ApiErr} /\ pc[r] = "exec" /\ pc'[r] # "exec") =>
             LET rows == Select(table, input[r].event)
             IN /\ input[r].event # ""
                /\ rows = {} => resp'[r].status = "500"
                /\ resp'[r].status = "200" =>
                       [event |-> resp'[r].event, location |-> resp'[r].location,
                        temperature |-> resp'[r].temperature] \in rows]_vars

\* C12 witness: a lookup found no row for its event and was answered 500.
C12_Witness ==
    \E r \in Workers :
        /\ variant \in {Api, ApiErr}
        /\ pc[r] = "done"
        /\ resp[r] = Failure("500", ErrNoRows)

\* C13: after a successful bootstrap, a query-handler request with an empty
\* or absent event parameter is answered 400 with the text "missing event
\* query parameter" at once, the connection pool untouched; only a request
\* with an event goes on to the database query.
C13_EmptyEventIsBadRequest ==
    [][\A r \in Workers :
         (variant \in {Api, ApiErr} /\ failedAt = 0
            /\ pc[r] = "handler" /\ pc'[r] # "handler") =>
             IF input'[r].event = ""
             THEN /\ pc'[r] = "done"
                  /\ resp'[r] = Failure("400", MissingEventText)
                  /\ pool' = pool
             ELSE pc'[r] = "getWeatherForEvent"]_vars

\* C13 witness: after a successful bootstrap a request was answered 400 for
\* its missing event, and no connection was ever opened.
C13_Witness ==
    \E r \in Workers :
        /\ variant \in {Api, ApiErr}
        /\ failedAt = 0
        /\ pc[r] = "done"
        /\ resp[r] = Failure("400", MissingEventText)
        /\ pool.numOpen = 0

\* C14: after a successful bootstrap the webhook handler answers every
\* request with exactly one of 400 (body empty or not an envelope, the weather
\* API not called), 500 (the call to the weather API failed or was answered
\* with another status than 200) or 200 (the API answered 200) with the
\* fulfillment text built from the location and temperature; no request
\* ends any other way.
C14_WebhookStatusMapping ==
    (variant \in {Assistant, AssistantErr} /\ once.done /\ failedAt = 0) =>
        \A r \in Workers :
            /\ pc[r] # "panic"
            /\ pc[r] = "done" => resp[r].status \in {"400", "500", "200"}
            /\ resp[r].status = "400" => resp[r].apiCode = 0
            /\ resp[r].status = "500" => resp[r].err = "getWeather"
            /\ resp[r].status = "200" =>
                   /\ resp[r].apiCode = 200
                   /\ resp[r].text =
                          FulfillmentText(resp[r].location, resp[r].temperature)

\* C15: for a payload of either form, direct or wrapped under "data", the
\* event and location the collector works with are the ones the payload
\* carries.
C15_BothPayloadForms ==
    \A r \in Workers :
        (variant = Collector /\ input[r].payload # NoPayload) =>
            /\ input[r].event = input[r].payload.event
            /\ input[r].location = input[r].payload.location

\* C16: after a successful bootstrap the frontend asks the weather API for
\* "GopherCon" when the request names no event, answers 200 or 500 only, and
\* answers 200 with the page only when the weather API itself answered 200:
\* a non-200 reply, like every other downstream failure, is a 500.
C16_FrontendFailuresAre500 ==
    (variant = Frontend /\ once.done /\ failedAt = 0) =>
        \A r \in Workers :
            /\ pc[r] = "callApi" => input[r].event \in {DefaultEvent} \cup Events
            /\ pc[r] = "done" => resp[r].status \in {"200", "500"}
            /\ resp[r].status = "200" => resp[r].apiCode = 200

C18_SnapshotImmutable ==
    [][(once.done /\ cfg.pc = 0) =>
           /\ config' = config
           /\ cfg' = cfg
           /\ pool'.opened = pool.opened
           /\ pool'.dsn = pool.dsn
           /\ pool'.maxOpen = pool.maxOpen
           /\ pool'.maxIdle = pool.maxIdle]_vars

\* C18 witness: every request has been handled, one of them to a successful
\* answer, and the snapshot is the one the bootstrap built.
C18_Witness ==
    /\ once.done
    /\ failedAt = 0
    /\ config.err = NoErr
    /\ \A r \in Workers : pc[r] = "done"
    /\ \E r \in Workers : resp[r].status \in {"200", "nil"}

\* C19: while one request executes configFunc, no other request is past
\* once.Do, and a request is past it only when the execution has finished
\* and released the Once; and every request waiting in once.Do is
\* eventually released, unless a panic has ended the process.
C19_WaitersReleased ==
    /\ [](\A r \in Workers :
            /\ (once.m # 0 /\ r # once.m) => pc[r] \in {"idle", "Do", "doSlow"}
            /\ pc[r] \in PastDoPcs => (once.done /\ once.m = 0 /\ cfg.pc = 0))
    /\ \A r \in Workers :
           (pc[r] = "doSlow") ~> (pc[r] # "doSlow" \/ ~alive)

\* C19 witness: a request entered the slow path of once.Do while another
\* executed configFunc; that execution has ended in a panic, leaving the
\* Once done and unlocked for the waiting request.
C19_Witness ==
    \E r1, r2 \in Workers :
        /\ r1 # r2
        /\ runs = 1
        /\ saw[r1] = "fail"
        /\ pc[r1] \in {"panic", "done"}
        /\ pc[r2] = "doSlow"
        /\ once = [done |-> TRUE, m |-> 0]

====
